---- MODULE Spec2Model ----
(***************************************************************************)
(* Model of mlir/lib/IR/ExtensibleDialect.cpp: dialects that register new  *)
(* types and operations at runtime.                                        *)
(*                                                                         *)
(* One MLIRContext is modelled.  `ctx` holds everything the context and    *)
(* its dialects own: the TypeID allocator, the heap of definitions, the    *)
(* dialects' indices, the type uniquer and the operation catalog.          *)
(* Assertions are modelled as compiled in: a failing assert ends the       *)
(* process (ctx.aborted names the assertion) and nothing runs after it.    *)
(***************************************************************************)
EXTENDS Naturals, Sequences, FiniteSets, TLC

VARIABLES ctx, threads, lastCall, parsed, outcome

vars == <<ctx, threads, lastCall, parsed, outcome>>

-----------------------------------------------------------------------------
(* Bounds of the model.                                                    *)

MaxDefs == 3
MaxStorages == 2
NThreads == 2

-----------------------------------------------------------------------------
(* Names are character sequences, so that "contains '.'" and the           *)
(* concatenation of the qualified name are computed as the code does.      *)

Dot == "."

Contains(name, ch) == \E i \in DOMAIN name : name[i] = ch

Dialects == {"d1", "d2"}

getNamespace(dialect) == IF dialect = "d1" THEN <<"x">> ELSE <<"y">>

TypeNames == {<<"t">>, <<"u">>, <<"t", ".", "u">>}

OpNames == {<<"o">>, <<"o", ".", "p">>}

Attrs == {"a", "b"}

ParamLists == {<<>>, <<"a", "b">>, <<"b", "a">>}

(* Caller-supplied hooks.  A verifier is a predicate on parameter lists;   *)
(* the registration phase, which never runs a verifier, draws from the     *)
(* smaller set.                                                            *)
Verifiers == {"acceptAll", "atMostOne"}

RegistrationVerifiers == {"acceptAll"}

verify(verifier, params) ==
    CASE verifier = "acceptAll" -> TRUE
      [] verifier = "atMostOne" -> Len(params) <= 1

CustomParsers == {"alwaysFail"}

CustomPrinters == {"silent"}

OpVerifiers == {"opVerify"}

OpCustomParsers == {"opParse"}

OpCustomPrinters == {"opPrint"}

-----------------------------------------------------------------------------
(* Assertion messages.                                                     *)

NoAbort == "running"

PrefixedName == "name should not be prefixed by the dialect name"

TypeWrongDialect == "trying to register a dynamic type in the wrong dialect"

TypeIDNotUnique == "generated TypeID was not unique"

ExistingName == "Trying to create a new dynamic type with an existing name"

OpWrongDialect == "trying to register a dynamic op in the wrong dialect"

Abort(c, message) == [c EXCEPT !.aborted = message]

-----------------------------------------------------------------------------
(* The context after construction of the two extensible dialects.          *)

EmptyMap == [x \in {} |-> 0]

FirstTypeID == 1

NewContext ==
    [ nextTypeID           |-> FirstTypeID,
      typeDefs             |-> <<>>,
      opDefs               |-> <<>>,
      dynTypes             |-> [d \in Dialects |-> EmptyMap],
      nameToDynTypes       |-> [d \in Dialects |-> EmptyMap],
      interfaces           |-> [d \in Dialects |-> {"IsExtensibleDialect"}],
      abstractTypes        |-> {},
      uniquerTypes         |-> {},
      registeredOperations |-> {},
      storages             |-> <<>>,
      aborted              |-> NoAbort ]

ExtensibleDialect_classof(c, dialect) ==
    "IsExtensibleDialect" \in c.interfaces[dialect]

-----------------------------------------------------------------------------
(* MLIRContext::allocateTypeID: a counter; the identifier handed out is    *)
(* the counter's value before the call.                                    *)

allocateTypeID(c) == [c EXCEPT !.nextTypeID = @ + 1]

-----------------------------------------------------------------------------
(* Dynamic type definitions.                                               *)

(* Both constructors: the members are initialised first (the TypeID is     *)
(* allocated), the body then asserts the name holds no '.'.                *)
DynamicTypeDefinition_ctor(c, dialect, nameRef, verifier, parser, printer) ==
    LET typeID == c.nextTypeID
        c1     == allocateTypeID(c)
        def    == [ name     |-> nameRef,
                    dialect  |-> dialect,
                    verifier |-> verifier,
                    parser   |-> parser,
                    printer  |-> printer,
                    typeID   |-> typeID,
                    owner    |-> "caller" ]
    IN  IF Contains(nameRef, Dot)
        THEN Abort(c1, PrefixedName)
        ELSE [c1 EXCEPT !.typeDefs = Append(@, def)]

(* get(dialect, name, verifier): default parser and printer.               *)
DynamicTypeDefinition_get(c, dialect, name, verifier) ==
    DynamicTypeDefinition_ctor(c, dialect, name, verifier, "default", "default")

(* get(dialect, name, verifier, parser, printer).                          *)
DynamicTypeDefinition_getCustom(c, dialect, name, verifier, parser, printer) ==
    DynamicTypeDefinition_ctor(c, dialect, name, verifier, parser, printer)

-----------------------------------------------------------------------------
(* Dynamic operation definitions.                                          *)

(* Mutant: every operation definition takes one static TypeID.             *)
DynamicOpDefinition_ctor_staticID(c, name, dialect, verifyFn, parseFn, printFn) ==
    LET def == [ typeID   |-> FirstTypeID,
                 name     |-> getNamespace(dialect) \o <<Dot>> \o name,
                 dialect  |-> dialect,
                 verifyFn |-> verifyFn,
                 parseFn  |-> parseFn,
                 printFn  |-> printFn,
                 added    |-> FALSE ]
    IN  [c EXCEPT !.opDefs = Append(@, def)]

(* The constructor allocates the TypeID and qualifies the name; it asserts *)
(* nothing.                                                                *)
DynamicOpDefinition_ctor(c, name, dialect, verifyFn, parseFn, printFn) ==
    LET typeID == c.nextTypeID
        c1     == allocateTypeID(c)
        def    == [ typeID   |-> typeID,
                    name     |-> getNamespace(dialect) \o <<Dot>> \o name,
                    dialect  |-> dialect,
                    verifyFn |-> verifyFn,
                    parseFn  |-> parseFn,
                    printFn  |-> printFn,
                    added    |-> FALSE ]
    IN  [c1 EXCEPT !.opDefs = Append(@, def)]

(* get(name, dialect, verifyFn): the parser that always fails and the      *)
(* generic printer; the name is not checked.                               *)
DynamicOpDefinition_get(c, name, dialect, verifyFn) ==
    DynamicOpDefinition_ctor(c, name, dialect, verifyFn, "noParser", "generic")

(* get(name, dialect, verifyFn, parseFn, printFn): asserts before          *)
(* constructing.                                                           *)
DynamicOpDefinition_getCustom(c, name, dialect, verifyFn, parseFn, printFn) ==
    IF Contains(name, Dot)
    THEN Abort(c, PrefixedName)
    ELSE DynamicOpDefinition_ctor(c, name, dialect, verifyFn, parseFn, printFn)

-----------------------------------------------------------------------------
(* Extensible dialect: registration.                                       *)

(* DenseMap::try_emplace and StringMap::insert: no overwrite.              *)
tryInsert(map, key, value) ==
    IF key \in DOMAIN map THEN map ELSE (key :> value) @@ map

(* Dialect::addType: the abstract type, with its interface map, is         *)
(* recorded in the context.                                                *)
addType(c, dialect, typeID, interfaceMap) ==
    [c EXCEPT !.abstractTypes =
        @ \cup {[typeID |-> typeID, dialect |-> dialect, interfaces |-> interfaceMap]}]

registerInTypeUniquer(c, typeID) ==
    [c EXCEPT !.uniquerTypes = @ \cup {typeID}]

(* Mutant: the result of the insertion by name is not asserted.            *)
ExtensibleDialect_addDynamicType_noNameCheck(c, this, i) ==
    LET type == c.typeDefs[i]
        c1 == [c EXCEPT !.dynTypes[this] = tryInsert(@, type.typeID, i),
                        !.typeDefs[i].owner = this]
        c2 == [c1 EXCEPT !.nameToDynTypes[this] = tryInsert(@, type.name, i)]
        c3 == addType(c2, type.dialect, type.typeID, {"IsDynamicTypeInterface"})
    IN  IF type.dialect # this THEN Abort(c, TypeWrongDialect)
        ELSE IF type.typeID \in DOMAIN c.dynTypes[this] THEN Abort(c, TypeIDNotUnique)
        ELSE registerInTypeUniquer(c3, type.typeID)

(* Mutant: the owner is asserted after the insertion by TypeID.            *)
ExtensibleDialect_addDynamicType_lateOwnerCheck(c, this, i) ==
    LET type == c.typeDefs[i]
        c1 == [c EXCEPT !.dynTypes[this] = tryInsert(@, type.typeID, i),
                        !.typeDefs[i].owner = this]
        c2 == [c1 EXCEPT !.nameToDynTypes[this] = tryInsert(@, type.name, i)]
        c3 == addType(c2, type.dialect, type.typeID, {"IsDynamicTypeInterface"})
    IN  IF type.typeID \in DOMAIN c.dynTypes[this] THEN Abort(c, TypeIDNotUnique)
        ELSE IF type.dialect # this THEN Abort(c1, TypeWrongDialect)
        ELSE IF type.name \in DOMAIN c.nameToDynTypes[this] THEN Abort(c1, ExistingName)
        ELSE registerInTypeUniquer(c3, type.typeID)

ExtensibleDialect_addDynamicType(c, this, i) ==
    LET type    == c.typeDefs[i]
        typeID  == type.typeID
        name    == type.name
        dialect == type.dialect
        registeredID   == typeID \notin DOMAIN c.dynTypes[this]
        c1 == [c EXCEPT !.dynTypes[this] = tryInsert(@, typeID, i),
                        !.typeDefs[i].owner = this]
        registeredName == name \notin DOMAIN c.nameToDynTypes[this]
        c2 == [c1 EXCEPT !.nameToDynTypes[this] = tryInsert(@, name, i)]
        c3 == addType(c2, dialect, typeID, {"IsDynamicTypeInterface"})
    IN  IF dialect # this THEN Abort(c, TypeWrongDialect)
        ELSE IF ~registeredID THEN Abort(c, TypeIDNotUnique)
        ELSE IF ~registeredName THEN Abort(c1, ExistingName)
        ELSE registerInTypeUniquer(c3, typeID)

(* AbstractOperation::insert: the global operation catalog.                *)
AbstractOperation_insert(c, name, dialect, typeID, parseFn, printFn, verifyFn) ==
    [c EXCEPT !.registeredOperations =
        @ \cup {[ name     |-> name,
                  dialect  |-> dialect,
                  typeID   |-> typeID,
                  parseFn  |-> parseFn,
                  printFn  |-> printFn,
                  verifyFn |-> verifyFn,
                  foldHook |-> "failure",
                  canonicalizationPatterns |-> {},
                  interfaces |-> {},
                  hasTrait |-> FALSE ]}]

ExtensibleDialect_addDynamicOp(c, this, j) ==
    LET type == c.opDefs[j]
        c1   == [c EXCEPT !.opDefs[j].added = TRUE]
    IN  IF type.dialect # this THEN Abort(c, OpWrongDialect)
        ELSE AbstractOperation_insert(c1, type.name, type.dialect, type.typeID,
                                      type.parseFn, type.printFn, type.verifyFn)

-----------------------------------------------------------------------------
(* Dynamic type instances.  The arena ctx.storages is append-only; an      *)
(* instance is its position in the arena, and 0 is the null DynamicType.   *)

Null == 0

(* Mutant: the parameter arrays are compared by address, and the key's     *)
(* array is never the arena's copy.                                        *)
DynamicTypeStorage_eq_byAddress(storage, key) ==
    storage.typeDef = key[1] /\ FALSE

(* Mutant: the parameters are left out of the comparison.                  *)
DynamicTypeStorage_eq_defOnly(storage, key) ==
    storage.typeDef = key[1]

(* DynamicTypeStorage::operator==(key), key = <<typeDef, params>>.         *)
DynamicTypeStorage_eq(storage, key) ==
    storage.typeDef = key[1] /\ storage.params = key[2]

(* DynamicTypeStorage::hashKey: a function of the key's content.  The      *)
(* model's hash keeps the definition and the length of the parameter list, *)
(* so that different keys can collide as they can under llvm::hash_value.  *)
DynamicTypeStorage_hashKey(key) == <<key[1], Len(key[2])>>

(* Mutant: the parameters are not copied into the storage.                 *)
DynamicTypeStorage_construct_noParams(key) == [typeDef |-> key[1], params |-> <<>>]

(* DynamicTypeStorage::construct: the parameters are copied into the       *)
(* arena.                                                                  *)
DynamicTypeStorage_construct(key) == [typeDef |-> key[1], params |-> key[2]]

Min(S) == CHOOSE x \in S : \A y \in S : x <= y

(* TypeUniquer::getWithTypeID / StorageUniquer::get: under the lock of the *)
(* table of typeID, return the storage whose hash and key match, or        *)
(* construct one.  The result is <<context, instance>>.                    *)
TypeUniquer_getWithTypeID(c, typeID, key) ==
    LET hits == { k \in DOMAIN c.storages :
                    /\ c.storages[k].typeID = typeID
                    /\ c.storages[k].hash = DynamicTypeStorage_hashKey(key)
                    /\ DynamicTypeStorage_eq(c.storages[k].storage, key) }
        new  == [ typeID  |-> typeID,
                  hash    |-> DynamicTypeStorage_hashKey(key),
                  storage |-> DynamicTypeStorage_construct(key) ]
    IN  IF hits # {}
        THEN <<c, Min(hits)>>
        ELSE <<[c EXCEPT !.storages = Append(@, new)], Len(c.storages) + 1>>

DynamicType_get(c, typeDef, params) ==
    TypeUniquer_getWithTypeID(c, c.typeDefs[typeDef].typeID, <<typeDef, params>>)

(* Mutant: the instance is interned before the verifier runs.              *)
DynamicType_getChecked_internFirst(c, typeDef, params) ==
    IF ~verify(c.typeDefs[typeDef].verifier, params)
    THEN <<DynamicType_get(c, typeDef, params)[1], Null>>
    ELSE DynamicType_get(c, typeDef, params)

(* Mutant: the verified parameters are not forwarded to get.               *)
DynamicType_getChecked_dropParams(c, typeDef, params) ==
    IF ~verify(c.typeDefs[typeDef].verifier, params)
    THEN <<c, Null>>
    ELSE DynamicType_get(c, typeDef, <<>>)

(* Mutant: an instance already interned is returned without verifying.     *)
DynamicType_getChecked_cacheFirst(c, typeDef, params) ==
    LET hit == { k \in DOMAIN c.storages :
                   /\ c.storages[k].storage.typeDef = typeDef
                   /\ c.storages[k].storage.params = params }
    IN  IF hit # {}
        THEN <<c, Min(hit)>>
        ELSE IF ~verify(c.typeDefs[typeDef].verifier, params)
        THEN <<c, Null>>
        ELSE DynamicType_get(c, typeDef, params)

DynamicType_getChecked(c, typeDef, params) ==
    IF ~verify(c.typeDefs[typeDef].verifier, params)
    THEN <<c, Null>>
    ELSE DynamicType_get(c, typeDef, params)

DynamicType_getTypeDef(c, inst) == c.storages[inst].storage.typeDef

DynamicType_getParams(c, inst) == c.storages[inst].storage.params

-----------------------------------------------------------------------------
(* Parsing.  A DialectAsmParser is the sequence of tokens still to read;   *)
(* a hook returns [ok, params, rest].                                      *)

Less == "<"

Greater == ">"

Comma == ","

(* parseOptionalLess, parseOptionalGreater, parseComma: succeed, and       *)
(* consume, exactly when the next token is the one asked for.              *)
nextIs(rest, token) == rest # <<>> /\ Head(rest) = token

(* parseAttribute: succeeds, and consumes, when the next token is an       *)
(* attribute.                                                              *)
nextIsAttribute(rest) == rest # <<>> /\ Head(rest) \in Attrs

RECURSIVE defaultParserLoop(_, _)
(* while (parser.parseOptionalGreater()) { parseComma || parseAttribute }  *)
defaultParserLoop(rest, parsedParams) ==
    IF nextIs(rest, Greater)
    THEN [ok |-> TRUE, params |-> parsedParams, rest |-> Tail(rest)]
    ELSE IF ~nextIs(rest, Comma)
    THEN [ok |-> FALSE, params |-> parsedParams, rest |-> rest]
    ELSE IF ~nextIsAttribute(Tail(rest))
    THEN [ok |-> FALSE, params |-> parsedParams, rest |-> Tail(rest)]
    ELSE defaultParserLoop(Tail(Tail(rest)), Append(parsedParams, Head(Tail(rest))))

(* A default parser that does not keep the first attribute it parsed.      *)
defaultParser_dropFirst(stream) ==
    IF ~nextIs(stream, Less)
    THEN [ok |-> TRUE, params |-> <<>>, rest |-> stream]
    ELSE IF nextIs(Tail(stream), Greater)
    THEN [ok |-> TRUE, params |-> <<>>, rest |-> Tail(Tail(stream))]
    ELSE IF ~nextIsAttribute(Tail(stream))
    THEN [ok |-> FALSE, params |-> <<>>, rest |-> Tail(stream)]
    ELSE defaultParserLoop(Tail(Tail(stream)), <<>>)

(* The parser DynamicTypeDefinition::get(dialect, name, verifier) installs. *)
defaultParser(stream) ==
    IF ~nextIs(stream, Less)
    THEN [ok |-> TRUE, params |-> <<>>, rest |-> stream]
    ELSE IF nextIs(Tail(stream), Greater)
    THEN [ok |-> TRUE, params |-> <<>>, rest |-> Tail(Tail(stream))]
    ELSE IF ~nextIsAttribute(Tail(stream))
    THEN [ok |-> FALSE, params |-> <<>>, rest |-> Tail(stream)]
    ELSE defaultParserLoop(Tail(Tail(stream)), <<Head(Tail(stream))>>)

(* typeDef->parser(parser, params)                                         *)
runParser(parser, stream) ==
    CASE parser = "default"    -> defaultParser(stream)
      [] parser = "alwaysFail" -> [ok |-> FALSE, params |-> <<>>, rest |-> stream]

(* DynamicType::parse.  parsedType is the caller's variable, null before   *)
(* the call; result is the ParseResult returned.                           *)
DynamicType_parse(c, typeDef, stream) ==
    LET p == runParser(c.typeDefs[typeDef].parser, stream)
        g == DynamicType_getChecked(c, typeDef, p.params)
    IN  IF ~p.ok
        THEN [ ctx |-> c, result |-> "failure", parsedType |-> Null,
               hookOk |-> FALSE, params |-> p.params, rest |-> p.rest ]
        ELSE [ ctx |-> g[1], result |-> "success", parsedType |-> g[2],
               hookOk |-> TRUE, params |-> p.params, rest |-> p.rest ]

(* Printing.  A DialectAsmPrinter is the sequence of tokens written; a     *)
(* name is written as one token.                                           *)

(* A default printer that writes the parameters without the commas.        *)
defaultPrinter_noComma(params) ==
    IF params = <<>>
    THEN <<>>
    ELSE <<Less>> \o params \o <<Greater>>

(* The printer DynamicTypeDefinition::get(dialect, name, verifier)         *)
(* installs; interleaveComma writes a comma between two parameters.        *)
defaultPrinter(params) ==
    IF params = <<>>
    THEN <<>>
    ELSE <<Less>>
         \o [ n \in 1..(2 * Len(params) - 1) |->
                IF n % 2 = 1 THEN params[(n + 1) \div 2] ELSE Comma ]
         \o <<Greater>>

(* getTypeDef()->printer(printer, getParams())                             *)
runPrinter(printer, params) ==
    CASE printer = "default" -> defaultPrinter(params)
      [] printer = "silent"  -> <<>>

(* A print that leaves the name out.                                       *)
DynamicType_print_hookOnly(c, inst) ==
    runPrinter(c.typeDefs[DynamicType_getTypeDef(c, inst)].printer,
               DynamicType_getParams(c, inst))

(* DynamicType::print                                                      *)
DynamicType_print(c, inst) ==
    <<c.typeDefs[DynamicType_getTypeDef(c, inst)].name>>
    \o runPrinter(c.typeDefs[DynamicType_getTypeDef(c, inst)].printer,
                  DynamicType_getParams(c, inst))

(* A Type is the TypeID of its abstract type and its storage; a type that  *)
(* is not dynamic holds no storage of the dynamic-type interner.           *)
BuiltinTypeID == 0

BuiltinAbstractTypes ==
    { [typeID |-> BuiltinTypeID, dialect |-> "builtin", interfaces |-> {}] }

Types(c) ==
    { [typeID |-> c.storages[k].typeID, impl |-> k] : k \in DOMAIN c.storages }
    \cup { [typeID |-> BuiltinTypeID, impl |-> Null] }

(* Type::getAbstractType: the abstract type registered under the TypeID.   *)
getAbstractType(c, type) ==
    CHOOSE abstractType \in c.abstractTypes \cup BuiltinAbstractTypes :
        abstractType.typeID = type.typeID

(* A classof that asks for the interface of the dialects.                  *)
DynamicType_classof_wrongInterface(c, type) ==
    "IsExtensibleDialect" \in getAbstractType(c, type).interfaces

(* DynamicType::classof: type.isa<IsDynamicTypeInterface>()                *)
DynamicType_classof(c, type) ==
    "IsDynamicTypeInterface" \in getAbstractType(c, type).interfaces

(* ExtensibleDialect::printIfDynamicType                                   *)
ExtensibleDialect_printIfDynamicType(c, type) ==
    IF DynamicType_classof(c, type)
    THEN [result |-> "success", text |-> DynamicType_print(c, type.impl)]
    ELSE [result |-> "failure", text |-> <<>>]

(* The hooks of an operation.  An Operation is its name; a parse hook      *)
(* returns whether it succeeded, the diagnostic it emitted and whether it  *)
(* filled the OperationState.                                              *)
NoParserDiagnostic == "dynamic operation do not define any parser function"

(* A parse hook that fails without emitting a diagnostic.                  *)
defaultOpParseFn_silent(stream) ==
    [ok |-> FALSE, diagnostic |-> "", produced |-> FALSE, rest |-> stream]

(* The parseFn DynamicOpDefinition::get(name, dialect, verifyFn) installs.  *)
defaultOpParseFn(stream) ==
    [ok |-> FALSE, diagnostic |-> NoParserDiagnostic, produced |-> FALSE,
     rest |-> stream]

(* OpAsmPrinter::printGenericOp: the quoted name, the operands, the type.  *)
printGenericOp(op) ==
    <<"\"", op.name, "\"", "(", ")", ":", "(", ")", "->", "(", ")">>

(* The printFn DynamicOpDefinition::get(name, dialect, verifyFn) installs.  *)
defaultOpPrintFn(op) == printGenericOp(op)

(* AbstractOperation::parseAssembly: the parse hook of the catalog entry.  *)
parseAssembly(entry, stream) ==
    CASE entry.parseFn = "noParser" -> defaultOpParseFn(stream)
      [] entry.parseFn = "opParse"  ->
            [ok |-> TRUE, diagnostic |-> "", produced |-> TRUE, rest |-> <<>>]

(* AbstractOperation::printAssembly: the print hook of the catalog entry.  *)
printAssembly(entry, op) ==
    CASE entry.printFn = "generic" -> defaultOpPrintFn(op)
      [] entry.printFn = "opPrint" -> <<op.name, "custom">>

(* ExtensibleDialect::lookupTypeDefinition(name): the definition under the *)
(* name in the dialect's index by name, or 0 for failure.                  *)
NoDefinition == 0

lookupTypeDefinition(c, this, typeName) ==
    IF typeName \in DOMAIN c.nameToDynTypes[this]
    THEN c.nameToDynTypes[this][typeName]
    ELSE NoDefinition

(* A parseOptionalDynamicType that reports an unknown name as a parse      *)
(* error.                                                                  *)
ExtensibleDialect_parseOptionalDynamicType_failOnUnknown(c, this, typeName, stream) ==
    LET typeDef == lookupTypeDefinition(c, this, typeName)
        p       == DynamicType_parse(c, typeDef, stream)
    IN  IF typeDef = NoDefinition
        THEN [ ctx |-> c, def |-> NoDefinition, result |-> "failure",
               resultType |-> Null, assigned |-> FALSE, hookCalls |-> 0,
               hookOk |-> FALSE, params |-> <<>>, rest |-> stream ]
        ELSE [ ctx |-> p.ctx, def |-> typeDef, result |-> p.result,
               resultType |-> p.parsedType, assigned |-> p.result = "success",
               hookCalls |-> 1, hookOk |-> p.hookOk, params |-> p.params,
               rest |-> p.rest ]

(* ExtensibleDialect::parseOptionalDynamicType.  result is the             *)
(* OptionalParseResult: "notApplicable" is the empty one.  resultType is   *)
(* the caller's variable, null before the call; assigned tells whether the *)
(* call wrote it; hookCalls counts the invocations of a parse hook.        *)
ExtensibleDialect_parseOptionalDynamicType(c, this, typeName, stream) ==
    LET typeDef == lookupTypeDefinition(c, this, typeName)
        p       == DynamicType_parse(c, typeDef, stream)
    IN  IF typeDef = NoDefinition
        THEN [ ctx |-> c, def |-> NoDefinition, result |-> "notApplicable",
               resultType |-> Null, assigned |-> FALSE, hookCalls |-> 0,
               hookOk |-> FALSE, params |-> <<>>, rest |-> stream ]
        ELSE IF p.result = "failure"
        THEN [ ctx |-> p.ctx, def |-> typeDef, result |-> "failure",
               resultType |-> Null, assigned |-> FALSE, hookCalls |-> 1,
               hookOk |-> p.hookOk, params |-> p.params, rest |-> p.rest ]
        ELSE [ ctx |-> p.ctx, def |-> typeDef, result |-> "success",
               resultType |-> p.parsedType, assigned |-> TRUE, hookCalls |-> 1,
               hookOk |-> p.hookOk, params |-> p.params, rest |-> p.rest ]

Streams ==
    { <<>>,
      <<"<", ">">>,
      <<"<", "a", ">">>,
      <<"<", "a", ",", "b", ">">>,
      <<"<", "b", ",", "a", ">">>,
      <<"<", "a", "b", ">">>,
      <<"<", "a", ",", ">">>,
      <<"<", "a">>,
      <<"<", ",">>,
      <<"a", ">">>,
      <<"<", "a", ">", "b">>,
      <<"<", "a", ",", "b", ",", "a", ">">>,
      <<"<", "a", ",", "b">> }

-----------------------------------------------------------------------------
(* Calls, as the program's callers make them.                              *)

Idle == [pc |-> "idle", op |-> "none", def |-> 0, params |-> <<>>, result |-> 0]

NoCall == [op |-> "none", dialect |-> "none", arg |-> 0, name |-> <<>>]

Running == ctx.aborted = NoAbort

NewTypeDef ==
    /\ Running
    /\ Len(ctx.typeDefs) + Len(ctx.opDefs) < MaxDefs
    /\ \E dialect \in Dialects, name \in TypeNames, verifier \in RegistrationVerifiers :
          /\ ctx' = DynamicTypeDefinition_get(ctx, dialect, name, verifier)
          /\ lastCall' = [op |-> "DynamicTypeDefinition::get", dialect |-> dialect,
                          arg |-> 0, name |-> name]
    /\ UNCHANGED <<threads, parsed, outcome>>

NewCustomTypeDef ==
    /\ Running
    /\ Len(ctx.typeDefs) + Len(ctx.opDefs) < MaxDefs
    /\ \E dialect \in Dialects, name \in TypeNames, verifier \in RegistrationVerifiers,
          parser \in CustomParsers, printer \in CustomPrinters :
          /\ ctx' = DynamicTypeDefinition_getCustom(ctx, dialect, name, verifier,
                                                     parser, printer)
          /\ lastCall' = [op |-> "DynamicTypeDefinition::get/custom",
                          dialect |-> dialect, arg |-> 0, name |-> name]
    /\ UNCHANGED <<threads, parsed, outcome>>

NewOpDef ==
    /\ Running
    /\ Len(ctx.typeDefs) + Len(ctx.opDefs) < MaxDefs
    /\ \E dialect \in Dialects, name \in OpNames, verifyFn \in OpVerifiers :
          /\ ctx' = DynamicOpDefinition_get(ctx, name, dialect, verifyFn)
          /\ lastCall' = [op |-> "DynamicOpDefinition::get", dialect |-> dialect,
                          arg |-> 0, name |-> name]
    /\ UNCHANGED <<threads, parsed, outcome>>

NewCustomOpDef ==
    /\ Running
    /\ Len(ctx.typeDefs) + Len(ctx.opDefs) < MaxDefs
    /\ \E dialect \in Dialects, name \in OpNames, verifyFn \in OpVerifiers,
          parseFn \in OpCustomParsers, printFn \in OpCustomPrinters :
          /\ ctx' = DynamicOpDefinition_getCustom(ctx, name, dialect, verifyFn,
                                                   parseFn, printFn)
          /\ lastCall' = [op |-> "DynamicOpDefinition::get/custom",
                          dialect |-> dialect, arg |-> 0, name |-> name]
    /\ UNCHANGED <<threads, parsed, outcome>>

(* The unique_ptr is handed over once: a definition already moved into a   *)
(* dialect cannot be passed again.                                         *)
AddDynamicType ==
    /\ Running
    /\ \E this \in Dialects, i \in DOMAIN ctx.typeDefs :
          /\ ctx.typeDefs[i].owner = "caller"
          /\ ctx' = ExtensibleDialect_addDynamicType(ctx, this, i)
          /\ lastCall' = [op |-> "addDynamicType", dialect |-> this, arg |-> i,
                          name |-> ctx.typeDefs[i].name]
    /\ UNCHANGED <<threads, parsed, outcome>>

AddDynamicOp ==
    /\ Running
    /\ \E this \in Dialects, j \in DOMAIN ctx.opDefs :
          /\ ~ctx.opDefs[j].added
          /\ ctx' = ExtensibleDialect_addDynamicOp(ctx, this, j)
          /\ lastCall' = [op |-> "addDynamicOp", dialect |-> this, arg |-> j,
                          name |-> ctx.opDefs[j].name]
    /\ UNCHANGED <<threads, parsed, outcome>>

-----------------------------------------------------------------------------
(* Use of registered types.  Threads call DynamicType::get and getChecked  *)
(* concurrently; a call is pending from the moment it is made ("called")   *)
(* until it has passed through the uniquer ("done").  A verifier reads     *)
(* nothing but its arguments, so a pending getChecked takes effect in one  *)
(* step.                                                                   *)

Threads == 1..NThreads

Registered(c) == { i \in DOMAIN c.typeDefs : c.typeDefs[i].typeID \in c.uniquerTypes }

Call(t, op, i, params) ==
    [threads EXCEPT ![t] =
        [pc |-> "called", op |-> op, def |-> i, params |-> params, result |-> Null]]

CallGet ==
    /\ Running
    /\ \E t \in Threads, i \in Registered(ctx), params \in ParamLists :
          /\ threads[t].pc = "idle"
          /\ threads' = Call(t, "get", i, params)
    /\ UNCHANGED <<ctx, lastCall, parsed, outcome>>

CallGetChecked ==
    /\ Running
    /\ \E t \in Threads, i \in Registered(ctx), params \in ParamLists :
          /\ threads[t].pc = "idle"
          /\ threads' = Call(t, "getChecked", i, params)
    /\ UNCHANGED <<ctx, lastCall, parsed, outcome>>

RunGet ==
    /\ Running
    /\ \E t \in Threads :
          /\ threads[t].pc = "called"
          /\ threads[t].op = "get"
          /\ LET r == DynamicType_get(ctx, threads[t].def, threads[t].params)
             IN  /\ Len(r[1].storages) <= MaxStorages
                 /\ ctx' = r[1]
                 /\ threads' = [threads EXCEPT ![t].pc = "done", ![t].result = r[2]]
    /\ UNCHANGED <<lastCall, parsed, outcome>>

RunGetChecked ==
    /\ Running
    /\ \E t \in Threads :
          /\ threads[t].pc = "called"
          /\ threads[t].op = "getChecked"
          /\ LET r == DynamicType_getChecked(ctx, threads[t].def, threads[t].params)
             IN  /\ Len(r[1].storages) <= MaxStorages
                 /\ ctx' = r[1]
                 /\ threads' = [threads EXCEPT ![t].pc = "done", ![t].result = r[2]]
    /\ UNCHANGED <<lastCall, parsed, outcome>>

Return ==
    /\ Running
    /\ \E t \in Threads :
          /\ threads[t].pc = "done"
          /\ threads' = [threads EXCEPT ![t] = Idle]
    /\ UNCHANGED <<ctx, lastCall, parsed, outcome>>

(* parsed is the outcome of the last parse call: its arguments (dialect    *)
(* and name for parseOptionalDynamicType, def for DynamicType::parse, the  *)
(* tokens given), what it returned and the tokens it left.                 *)
NoParse ==
    [ call |-> "none", dialect |-> "none", name |-> <<>>, def |-> NoDefinition,
      input |-> <<>>, result |-> "none", parsedType |-> Null, assigned |-> FALSE,
      hookCalls |-> 0, hookOk |-> FALSE, params |-> <<>>, rest |-> <<>> ]

Parse ==
    /\ Running
    /\ \E i \in Registered(ctx), stream \in Streams :
          LET r == DynamicType_parse(ctx, i, stream)
          IN  /\ Len(r.ctx.storages) <= MaxStorages
              /\ ctx' = r.ctx
              /\ parsed' = [ call |-> "DynamicType::parse",
                             dialect |-> ctx.typeDefs[i].dialect,
                             name |-> ctx.typeDefs[i].name, def |-> i,
                             input |-> stream, result |-> r.result,
                             parsedType |-> r.parsedType, assigned |-> TRUE,
                             hookCalls |-> 1, hookOk |-> r.hookOk,
                             params |-> r.params, rest |-> r.rest ]
    /\ UNCHANGED <<threads, lastCall, outcome>>

ParseOptional(this, typeName, stream) ==
    LET r == ExtensibleDialect_parseOptionalDynamicType(ctx, this, typeName, stream)
    IN  /\ Len(r.ctx.storages) <= MaxStorages
        /\ ctx' = r.ctx
        /\ parsed' = [ call |-> "parseOptionalDynamicType", dialect |-> this,
                       name |-> typeName, def |-> r.def, input |-> stream,
                       result |-> r.result, parsedType |-> r.resultType,
                       assigned |-> r.assigned, hookCalls |-> r.hookCalls,
                       hookOk |-> r.hookOk, params |-> r.params, rest |-> r.rest ]

ParseOptionalDynamicType ==
    /\ Running
    /\ \E this \in Dialects, typeName \in TypeNames, stream \in Streams :
          ParseOptional(this, typeName, stream)
    /\ UNCHANGED <<threads, lastCall, outcome>>

Reparse ==
    /\ Running
    /\ outcome.call = "DynamicType::print"
    /\ ParseOptional(ctx.typeDefs[DynamicType_getTypeDef(ctx, outcome.arg.impl)].owner,
                     Head(outcome.text), Tail(outcome.text))
    /\ UNCHANGED <<threads, lastCall, outcome>>

DynamicTypePrint ==
    /\ Running
    /\ \E type \in Types(ctx) :
          /\ DynamicType_classof(ctx, type)
          /\ outcome' = [ call |-> "DynamicType::print", arg |-> type,
                          input |-> <<>>, result |-> "success",
                          diagnostic |-> "", produced |-> FALSE,
                          text |-> DynamicType_print(ctx, type.impl) ]
    /\ UNCHANGED <<ctx, threads, lastCall, parsed>>

PrintIfDynamicType ==
    /\ Running
    /\ \E type \in Types(ctx) :
          LET r == ExtensibleDialect_printIfDynamicType(ctx, type)
          IN  outcome' = [ call |-> "printIfDynamicType", arg |-> type,
                          input |-> <<>>, result |-> r.result,
                          diagnostic |-> "", produced |-> FALSE,
                          text |-> r.text ]
    /\ UNCHANGED <<ctx, threads, lastCall, parsed>>

DynamicTypeGet ==
    /\ Running
    /\ \E i \in Registered(ctx), params \in ParamLists :
          LET r == DynamicType_get(ctx, i, params)
          IN  /\ Len(r[1].storages) <= MaxStorages
              /\ ctx' = r[1]
    /\ UNCHANGED <<threads, lastCall, parsed, outcome>>

OpParse ==
    /\ Running
    /\ \E entry \in ctx.registeredOperations, stream \in Streams :
          LET r == parseAssembly(entry, stream)
          IN  outcome' = [ call |-> "parseAssembly",
                          arg |-> [typeID |-> entry.typeID, impl |-> Null],
                          input |-> stream,
                          result |-> IF r.ok THEN "success" ELSE "failure",
                          diagnostic |-> r.diagnostic, produced |-> r.produced,
                          text |-> <<>> ]
    /\ UNCHANGED <<ctx, threads, lastCall, parsed>>

OpPrint ==
    /\ Running
    /\ \E entry \in ctx.registeredOperations :
          outcome' = [ call |-> "printAssembly",
                      arg |-> [typeID |-> entry.typeID, impl |-> Null],
                      input |-> <<>>, result |-> "success", diagnostic |-> "",
                      produced |-> FALSE,
                      text |-> printAssembly(entry, [name |-> entry.name]) ]
    /\ UNCHANGED <<ctx, threads, lastCall, parsed>>

(* outcome is the outcome of the last print call or operation hook call:   *)
(* the value or operation given, what was returned, the diagnostic emitted *)
(* and the tokens written.                                                 *)
NoOutcome ==
    [ call |-> "none", arg |-> [typeID |-> BuiltinTypeID, impl |-> Null],
      input |-> <<>>, result |-> "none", diagnostic |-> "", produced |-> FALSE,
      text |-> <<>> ]

-----------------------------------------------------------------------------
(* Specification of the registration phase.                                *)

Init ==
    /\ ctx = NewContext
    /\ threads = [t \in Threads |-> Idle]
    /\ lastCall = NoCall
    /\ parsed = NoParse
    /\ outcome = NoOutcome

Next ==
    \/ NewTypeDef
    \/ NewCustomTypeDef
    \/ NewOpDef
    \/ NewCustomOpDef
    \/ AddDynamicType
    \/ AddDynamicOp

Spec == Init /\ [][Next]_vars

-----------------------------------------------------------------------------
(* Specifications of the use phase.  The setup has constructed two type    *)
(* definitions with the default hooks, "t" of d1, whose verifier accepts   *)
(* at most one parameter, and "u" of d1, whose verifier accepts            *)
(* everything, and has registered the first.  The second is registered     *)
(* while the types are in use.                                             *)

Setup ==
    LET c1 == DynamicTypeDefinition_get(NewContext, "d1", <<"t">>, "atMostOne")
        c2 == DynamicTypeDefinition_get(c1, "d1", <<"u">>, "acceptAll")
        c3 == ExtensibleDialect_addDynamicType(c2, "d1", 1)
    IN  c3

InitUse ==
    /\ ctx = Setup
    /\ threads = [t \in Threads |-> Idle]
    /\ lastCall = NoCall
    /\ parsed = NoParse
    /\ outcome = NoOutcome

NextIntern ==
    \/ AddDynamicType
    \/ CallGet
    \/ CallGetChecked
    \/ RunGet
    \/ RunGetChecked
    \/ Return

SpecIntern == InitUse /\ [][NextIntern]_vars

(* N threads calling concurrently: no call passes through the uniquer      *)
(* before every thread has made its call, and no thread calls twice.       *)
AllCalled == \A t \in Threads : threads[t].pc # "idle"

RaceGet == AllCalled /\ RunGet

RaceGetChecked == AllCalled /\ RunGetChecked

NextRace ==
    \/ AddDynamicType
    \/ CallGet
    \/ CallGetChecked
    \/ RaceGet
    \/ RaceGetChecked

SpecRace == InitUse /\ [][NextRace]_vars

NextParse ==
    \/ AddDynamicType
    \/ Parse
    \/ ParseOptionalDynamicType

SpecParse == InitUse /\ [][NextParse]_vars

(* Specification of printing and of the operation hooks.  The extension    *)
(* has, besides the types, constructed an operation with the verifier only *)
(* and an operation with its own hooks; it registers them, creates         *)
(* instances, prints them and parses what was printed.                     *)
SetupHooks ==
    LET c4 == DynamicOpDefinition_get(Setup, <<"o">>, "d1", "opVerify")
        c5 == DynamicOpDefinition_getCustom(c4, <<"p">>, "d1", "opVerify",
                                            "opParse", "opPrint")
    IN  c5

InitHooks ==
    /\ ctx = SetupHooks
    /\ threads = [t \in Threads |-> Idle]
    /\ lastCall = NoCall
    /\ parsed = NoParse
    /\ outcome = NoOutcome

NextHooks ==
    \/ AddDynamicType
    \/ AddDynamicOp
    \/ DynamicTypeGet
    \/ DynamicTypePrint
    \/ PrintIfDynamicType
    \/ Reparse
    \/ OpParse
    \/ OpPrint

SpecHooks == InitHooks /\ [][NextHooks]_vars

-----------------------------------------------------------------------------
(* Properties.                                                             *)

Done(t) == threads[t].pc = "done"

SameKey(t1, t2) ==
    /\ threads[t1].def = threads[t2].def
    /\ Len(threads[t1].params) = Len(threads[t2].params)
    /\ \A n \in DOMAIN threads[t1].params :
          threads[t1].params[n] = threads[t2].params[n]

Accepts(t) == verify(ctx.typeDefs[threads[t].def].verifier, threads[t].params)

Records(i, params) ==
    { k \in DOMAIN ctx.storages :
        /\ ctx.storages[k].storage.typeDef = i
        /\ ctx.storages[k].storage.params = params }

(* C1 Uniqueness: any two completed DynamicType::get calls with the same   *)
(* definition and element-wise equal parameter lists hold the identical    *)
(* instance, whatever was interned in between, and the arena holds no two  *)
(* storages with the same definition and parameters.                       *)
C1_Uniqueness ==
    /\ \A t1, t2 \in Threads :
          ( /\ Done(t1) /\ threads[t1].op = "get"
            /\ Done(t2) /\ threads[t2].op = "get"
            /\ SameKey(t1, t2) )
          => /\ threads[t1].result # Null
             /\ threads[t1].result = threads[t2].result
    /\ \A i \in DOMAIN ctx.typeDefs, params \in ParamLists :
          Cardinality(Records(i, params)) <= 1

C1_Witness ==
    /\ Done(1) /\ threads[1].op = "get"
    /\ Done(2) /\ threads[2].op = "get"
    /\ SameKey(1, 2)
    /\ threads[1].result = 1
    /\ threads[2].result = 1
    /\ Len(ctx.storages) = 2

(* C2 Distinctness: two completed DynamicType::get calls whose parameter   *)
(* lists differ (in length, element or order) or whose definitions differ  *)
(* hold different instances, and each instance stores the definition and   *)
(* parameters it was asked for.                                            *)
C2_Distinctness ==
    \A t1, t2 \in Threads :
        ( /\ Done(t1) /\ threads[t1].op = "get"
          /\ Done(t2) /\ threads[t2].op = "get"
          /\ ~SameKey(t1, t2) )
        => /\ threads[t1].result # threads[t2].result
           /\ DynamicType_getTypeDef(ctx, threads[t1].result) = threads[t1].def
           /\ DynamicType_getParams(ctx, threads[t1].result) = threads[t1].params

C2_Witness ==
    /\ Done(1) /\ threads[1].op = "get"
    /\ Done(2) /\ threads[2].op = "get"
    /\ threads[1].def = threads[2].def
    /\ threads[1].params = <<"a", "b">>
    /\ threads[2].params = <<"b", "a">>
    /\ threads[1].result # threads[2].result

(* C3 Concurrent interning: when all threads have called get, or           *)
(* getChecked with parameters the verifier accepts, for one key while the  *)
(* others' calls were pending, then once all calls have completed every    *)
(* thread holds the same instance and the arena holds exactly one storage  *)
(* for the key.                                                            *)
C3_ConcurrentInterning ==
    ( /\ \A t \in Threads : Done(t) /\ SameKey(t, 1)
      /\ \A t \in Threads : threads[t].op = "getChecked" => Accepts(t) )
    => /\ \A t \in Threads :
             threads[t].result # Null /\ threads[t].result = threads[1].result
       /\ Cardinality(Records(threads[1].def, threads[1].params)) = 1

C3_Witness ==
    /\ \A t \in Threads : Done(t) /\ SameKey(t, 1) /\ threads[t].result # Null
    /\ threads[1].op = "get"
    /\ \E t \in Threads : threads[t].op = "getChecked"

(* C4 Verification gating: a getChecked whose verifier rejects the         *)
(* parameters returns the null instance and changes nothing in the         *)
(* context, so it adds no storage; and whatever failed before, a completed *)
(* getChecked whose verifier accepts holds the instance of its own         *)
(* definition and parameters.                                              *)
C4_VerificationGating ==
    /\ [][ \A t \in Threads :
             ( /\ threads[t].pc = "called"
               /\ threads[t].op = "getChecked"
               /\ ~Accepts(t)
               /\ threads'[t].pc = "done" )
             => /\ threads'[t].result = Null
                /\ ctx' = ctx ]_vars
    /\ [] ( \A t \in Threads :
              (Done(t) /\ threads[t].op = "getChecked" /\ Accepts(t))
              => /\ threads[t].result # Null
                 /\ Records(threads[t].def, threads[t].params) = {threads[t].result} )

C4_Witness ==
    /\ Done(1) /\ threads[1].op = "getChecked" /\ ~Accepts(1)
    /\ threads[1].result = Null
    /\ Done(2) /\ threads[2].op = "getChecked" /\ Accepts(2)
    /\ threads[2].def = threads[1].def
    /\ threads[2].result # Null
    /\ Records(threads[1].def, threads[1].params) = {}

(* C5 DynamicType::parse returns failure when the parse hook fails and     *)
(* when the verifier rejects the parsed parameters, and returns success    *)
(* only with an instance.                                                  *)
C5_ParseFailureUniform ==
    parsed.call = "DynamicType::parse" =>
        LET hook == runParser(ctx.typeDefs[parsed.def].parser, parsed.input)
            rejected == ~verify(ctx.typeDefs[parsed.def].verifier, hook.params)
        IN  /\ ~hook.ok => parsed.result = "failure"
            /\ (hook.ok /\ rejected) => parsed.result = "failure"
            /\ parsed.result = "success" => parsed.parsedType # Null

(* C6 getChecked refines get: a completed get and a completed getChecked   *)
(* for the same definition and parameters, accepted by the verifier, hold  *)
(* the identical instance, in whichever order they ran.                    *)
C6_GetCheckedRefinesGet ==
    \A t1, t2 \in Threads :
        ( /\ Done(t1) /\ threads[t1].op = "get"
          /\ Done(t2) /\ threads[t2].op = "getChecked"
          /\ SameKey(t1, t2)
          /\ Accepts(t2) )
        => /\ threads[t2].result # Null
           /\ threads[t2].result = threads[t1].result

C6_Witness ==
    /\ Done(1) /\ threads[1].op = "get"
    /\ Done(2) /\ threads[2].op = "getChecked"
    /\ SameKey(1, 2)
    /\ threads[1].params = <<"a", "b">>
    /\ threads[2].result = threads[1].result
    /\ threads[2].result # Null

(* C7 Duplicate-name guard: after an addDynamicType call on a dialect      *)
(* whose index by name already held another definition under the passed    *)
(* definition's name, the process has aborted on an assertion: the         *)
(* existing-name one when the definition belongs to the dialect.           *)
C7_DuplicateNameGuard ==
    \A this \in Dialects :
        ( /\ lastCall.op = "addDynamicType"
          /\ lastCall.dialect = this
          /\ lastCall.name \in DOMAIN ctx.nameToDynTypes[this]
          /\ ctx.nameToDynTypes[this][lastCall.name] # lastCall.arg )
        => /\ ctx.aborted \in {ExistingName, TypeWrongDialect}
           /\ ctx.typeDefs[lastCall.arg].dialect = this => ctx.aborted = ExistingName

C7_Witness ==
    /\ lastCall.op = "addDynamicType"
    /\ ctx.aborted = ExistingName
    /\ ctx.nameToDynTypes[lastCall.dialect][lastCall.name] # lastCall.arg

(* C8 Owner guard: an addDynamicType or addDynamicOp call on a dialect     *)
(* other than the definition's aborts on the wrong-dialect assertion and   *)
(* changes nothing else in the context (no index, no uniquer entry, no     *)
(* catalog entry).                                                         *)
C8_OwnerGuard ==
    [][ /\ ( /\ lastCall'.op = "addDynamicType"
             /\ ctx.aborted = NoAbort
             /\ ctx.typeDefs[lastCall'.arg].dialect # lastCall'.dialect )
           => ctx' = Abort(ctx, TypeWrongDialect)
        /\ ( /\ lastCall'.op = "addDynamicOp"
             /\ ctx.aborted = NoAbort
             /\ ctx.opDefs[lastCall'.arg].dialect # lastCall'.dialect )
           => ctx' = Abort(ctx, OpWrongDialect) ]_vars

C8_Witness ==
    /\ lastCall.op = "addDynamicOp"
    /\ ctx.opDefs[lastCall.arg].dialect # lastCall.dialect
    /\ ctx.aborted = OpWrongDialect
    /\ ctx.dynTypes[lastCall.dialect] # EmptyMap

(* C9 Identifier uniqueness: no two definitions, type or operation,        *)
(* registered or not, share a TypeID, and every TypeID held was issued by  *)
(* the allocator.                                                          *)
DefinitionIDs ==
    [ n \in 1..(Len(ctx.typeDefs) + Len(ctx.opDefs)) |->
        IF n <= Len(ctx.typeDefs)
        THEN ctx.typeDefs[n].typeID
        ELSE ctx.opDefs[n - Len(ctx.typeDefs)].typeID ]

C9_IdentifierUniqueness ==
    /\ \A m, n \in DOMAIN DefinitionIDs : m # n => DefinitionIDs[m] # DefinitionIDs[n]
    /\ \A n \in DOMAIN DefinitionIDs :
          FirstTypeID <= DefinitionIDs[n] /\ DefinitionIDs[n] < ctx.nextTypeID

C9_Witness ==
    /\ Len(ctx.typeDefs) >= 1
    /\ Len(ctx.opDefs) >= 2
    /\ \E i \in DOMAIN ctx.typeDefs : ctx.typeDefs[i].owner # "caller"
    /\ \E j \in DOMAIN ctx.opDefs : ctx.opDefs[j].typeID < ctx.typeDefs[1].typeID

(* C10 No operation definition is constructed from an unqualified name     *)
(* that contains the separator: a qualified name holds the one separator   *)
(* after the namespace.                                                    *)
Separators(name) == Cardinality({n \in DOMAIN name : name[n] = Dot})

C10_OpNameRejected ==
    \A j \in DOMAIN ctx.opDefs : Separators(ctx.opDefs[j].name) = 1

(* C13 parseOptionalDynamicType returns the empty result exactly when no   *)
(* definition with the name is registered in the dialect; it then invokes  *)
(* no parse hook, reads no token, does not write the result type and       *)
(* leaves the context as it was; for a registered name it returns success  *)
(* or failure.                                                             *)
RegisteredUnder(c, this, typeName) ==
    { i \in Registered(c) :
        c.typeDefs[i].owner = this /\ c.typeDefs[i].name = typeName }

C13_NotApplicable ==
    [][ (parsed' # parsed /\ parsed'.call = "parseOptionalDynamicType") =>
          LET known == RegisteredUnder(ctx, parsed'.dialect, parsed'.name) # {}
          IN  /\ (parsed'.result = "notApplicable") <=> ~known
              /\ ~known => /\ parsed'.hookCalls = 0
                           /\ parsed'.rest = parsed'.input
                           /\ ~parsed'.assigned
                           /\ parsed'.parsedType = Null
                           /\ ctx' = ctx
              /\ known => parsed'.result \in {"success", "failure"} ]_vars

C13_Witness ==
    /\ parsed.call = "parseOptionalDynamicType"
    /\ parsed.result = "notApplicable"
    /\ parsed.dialect = "d2"
    /\ parsed.name = <<"t">>
    /\ parsed.input = <<"<", "a", ">">>
    /\ RegisteredUnder(ctx, "d1", <<"t">>) # {}
    /\ Len(ctx.storages) > 0

(* C20 Whenever parseOptionalDynamicType returns success, the result type  *)
(* is a non-null interned instance of the definition registered under the  *)
(* name, with the parameters the parse hook produced, which the verifier   *)
(* accepts.                                                                *)
C20_SuccessYieldsInstance ==
    (parsed.call = "parseOptionalDynamicType" /\ parsed.result = "success") =>
        /\ parsed.parsedType # Null
        /\ parsed.parsedType \in DOMAIN ctx.storages
        /\ DynamicType_getTypeDef(ctx, parsed.parsedType)
              \in RegisteredUnder(ctx, parsed.dialect, parsed.name)
        /\ DynamicType_getParams(ctx, parsed.parsedType) = parsed.params
        /\ verify(ctx.typeDefs[parsed.def].verifier, parsed.params)

(* The positions k at which the tokens 1..k are '<', one or more attribute *)
(* values separated by ',', and '>'.                                       *)
AttributeListEnd(input) ==
    { k \in DOMAIN input :
        /\ k >= 3
        /\ k % 2 = 1
        /\ input[1] = Less
        /\ input[k] = Greater
        /\ \A n \in 2..(k - 1) :
              IF n % 2 = 0 THEN input[n] \in Attrs ELSE input[n] = Comma }

AttributeListParsed(k) ==
    /\ parsed.params = [n \in 1..((k - 1) \div 2) |-> parsed.input[2 * n]]
    /\ parsed.rest = SubSeq(parsed.input, k + 1, Len(parsed.input))

DefaultParserCalled ==
    /\ parsed.hookCalls = 1
    /\ ctx.typeDefs[parsed.def].parser = "default"

(* C16 as stated: the default parse hook succeeds with an empty list and   *)
(* reads nothing when the next token is not '<'; otherwise it accepts only *)
(* '<', at least one attribute value separated by ',', and '>', giving the *)
(* values in input order.                                                  *)
C16_AtLeastOneAttribute ==
    DefaultParserCalled =>
        IF ~nextIs(parsed.input, Less)
        THEN parsed.hookOk /\ parsed.params = <<>> /\ parsed.rest = parsed.input
        ELSE /\ parsed.hookOk <=> AttributeListEnd(parsed.input) # {}
             /\ parsed.hookOk =>
                   \E k \in AttributeListEnd(parsed.input) : AttributeListParsed(k)

(* C16 amended: the default parse hook succeeds with an empty list and     *)
(* reads nothing when the next token is not '<'; it succeeds with an empty *)
(* list, having read both tokens, when the tokens are '<' '>'; otherwise   *)
(* it accepts only '<', at least one attribute value separated by ',',     *)
(* and '>', giving the values in input order and leaving the tokens after  *)
(* '>'.                                                                    *)
C16_DefaultParser ==
    DefaultParserCalled =>
        IF ~nextIs(parsed.input, Less)
        THEN parsed.hookOk /\ parsed.params = <<>> /\ parsed.rest = parsed.input
        ELSE IF nextIs(Tail(parsed.input), Greater)
        THEN /\ parsed.hookOk
             /\ parsed.params = <<>>
             /\ parsed.rest = SubSeq(parsed.input, 3, Len(parsed.input))
        ELSE /\ parsed.hookOk <=> AttributeListEnd(parsed.input) # {}
             /\ parsed.hookOk =>
                   \E k \in AttributeListEnd(parsed.input) : AttributeListParsed(k)

C16_Witness ==
    /\ DefaultParserCalled
    /\ parsed.input = <<"<", "a", ",", "b", ",", "a", ">">>
    /\ parsed.hookOk
    /\ parsed.params = <<"a", "b", "a">>
    /\ parsed.rest = <<>>

(* C11 An operation constructed with the verifier only: every call of its  *)
(* parse hook emits a non-empty diagnostic, returns failure and produces   *)
(* no operation; every call of its print hook succeeds and writes the      *)
(* generic form of the operation.  The first operation of the setup is the *)
(* one constructed with the verifier only.                                 *)
C11_VerifierOnlyOp ==
    outcome.arg.typeID = ctx.opDefs[1].typeID =>
        /\ outcome.call = "parseAssembly" =>
              /\ outcome.result = "failure"
              /\ outcome.diagnostic # ""
              /\ ~outcome.produced
        /\ outcome.call = "printAssembly" =>
              /\ outcome.result = "success"
              /\ outcome.text = printGenericOp([name |-> ctx.opDefs[1].name])

C11_Witness ==
    /\ outcome.call = "parseAssembly"
    /\ outcome.arg.typeID = ctx.opDefs[1].typeID
    /\ outcome.input = <<"<", "a", ">">>
    /\ outcome.result = "failure"
    /\ \E entry \in ctx.registeredOperations : entry.parseFn = "opParse"

(* C12 Round trip of the default hooks: when an instance whose parameters  *)
(* the verifier accepts is printed and the printed text is parsed in the   *)
(* dialect of its definition, the parse succeeds and yields the identical  *)
(* instance, with and without parameters.                                  *)
PrintedThenParsed ==
    /\ outcome.call = "DynamicType::print"
    /\ parsed.call = "parseOptionalDynamicType"
    /\ LET def == ctx.typeDefs[DynamicType_getTypeDef(ctx, outcome.arg.impl)]
       IN  /\ def.parser = "default"
           /\ def.printer = "default"
           /\ verify(def.verifier, DynamicType_getParams(ctx, outcome.arg.impl))
           /\ parsed.dialect = def.owner
    /\ parsed.name = Head(outcome.text)
    /\ parsed.input = Tail(outcome.text)

C12_RoundTrip ==
    PrintedThenParsed =>
        /\ parsed.result = "success"
        /\ parsed.parsedType = outcome.arg.impl

C12_Witness ==
    /\ PrintedThenParsed
    /\ DynamicType_getParams(ctx, outcome.arg.impl) = <<"b", "a">>
    /\ parsed.parsedType = outcome.arg.impl
    /\ Len(ctx.storages) > 1

(* C14 printIfDynamicType returns success and writes what DynamicType's    *)
(* print writes exactly when the value is an instance of a type registered *)
(* through addDynamicType; for every other value it returns failure and    *)
(* writes nothing.                                                         *)
IsDynamicInstance(type) ==
    /\ type.impl \in DOMAIN ctx.storages
    /\ DynamicType_getTypeDef(ctx, type.impl) \in Registered(ctx)
    /\ ctx.typeDefs[DynamicType_getTypeDef(ctx, type.impl)].owner # "caller"

C14_PrintIfDynamicType ==
    outcome.call = "printIfDynamicType" =>
        IF IsDynamicInstance(outcome.arg)
        THEN /\ outcome.result = "success"
             /\ outcome.text = DynamicType_print(ctx, outcome.arg.impl)
        ELSE /\ outcome.result = "failure"
             /\ outcome.text = <<>>

C14_Witness ==
    /\ outcome.call = "printIfDynamicType"
    /\ IsDynamicInstance(outcome.arg)
    /\ outcome.result = "success"
    /\ Len(outcome.text) > 1

(* C17 as stated: DynamicType's print writes the name of the definition    *)
(* qualified by the namespace, then what the print hook writes.            *)
C17_QualifiedName ==
    outcome.call = "DynamicType::print" =>
        LET def == ctx.typeDefs[DynamicType_getTypeDef(ctx, outcome.arg.impl)]
        IN  outcome.text =
              <<getNamespace(def.dialect) \o <<Dot>> \o def.name>>
              \o runPrinter(def.printer, DynamicType_getParams(ctx, outcome.arg.impl))

(* C17 amended: DynamicType's print writes the unqualified name of the     *)
(* definition, then what the print hook writes.                            *)
C17_UnqualifiedName ==
    outcome.call = "DynamicType::print" =>
        LET def == ctx.typeDefs[DynamicType_getTypeDef(ctx, outcome.arg.impl)]
        IN  outcome.text =
              <<def.name>>
              \o runPrinter(def.printer, DynamicType_getParams(ctx, outcome.arg.impl))

C17_Witness ==
    /\ outcome.call = "DynamicType::print"
    /\ outcome.text = <<<<"u">>, "<", "a", ",", "b", ">">>

(* C15 Index bijection: while no call has aborted, in every dialect the    *)
(* index by TypeID and the index by name hold the same definitions, one    *)
(* TypeID and one name each, and the definition under a name is the one    *)
(* under that definition's TypeID.                                         *)
IndexRange(index) == { index[k] : k \in DOMAIN index }

C15_IndexBijection ==
    Running =>
        \A this \in Dialects :
            LET byID   == ctx.dynTypes[this]
                byName == ctx.nameToDynTypes[this]
            IN  /\ IndexRange(byID) = IndexRange(byName)
                /\ \A k1, k2 \in DOMAIN byID : byID[k1] = byID[k2] => k1 = k2
                /\ \A n1, n2 \in DOMAIN byName : byName[n1] = byName[n2] => n1 = n2
                /\ \A k \in DOMAIN byID : ctx.typeDefs[byID[k]].typeID = k
                /\ \A n \in DOMAIN byName :
                      /\ ctx.typeDefs[byName[n]].name = n
                      /\ byID[ctx.typeDefs[byName[n]].typeID] = byName[n]

C15_Witness ==
    /\ Running
    /\ Cardinality(DOMAIN ctx.dynTypes["d1"]) = 2
    /\ Cardinality(DOMAIN ctx.nameToDynTypes["d1"]) = 2
    /\ Cardinality(DOMAIN ctx.dynTypes["d2"]) = 1

(* C18 The result of getChecked depends on the verifier only: a completed  *)
(* get holds an interned instance of its definition and parameters whether *)
(* or not the verifier accepts them, and a getChecked whose verifier       *)
(* rejects parameters that are already interned still returns the null     *)
(* instance.                                                               *)
C18_VerifierOnly ==
    /\ [] ( \A t \in Threads :
              (Done(t) /\ threads[t].op = "get")
              => /\ threads[t].result # Null
                 /\ threads[t].result \in Records(threads[t].def, threads[t].params) )
    /\ [][ \A t \in Threads :
             ( /\ threads[t].pc = "called"
               /\ threads[t].op = "getChecked"
               /\ ~Accepts(t)
               /\ Records(threads[t].def, threads[t].params) # {}
               /\ threads'[t].pc = "done" )
             => threads'[t].result = Null ]_vars

C18_Witness ==
    /\ Done(1) /\ threads[1].op = "get" /\ ~Accepts(1)
    /\ threads[1].result # Null
    /\ Done(2) /\ threads[2].op = "getChecked" /\ SameKey(1, 2)
    /\ threads[2].result = Null
    /\ Records(threads[2].def, threads[2].params) = {threads[1].result}

(* C19 addDynamicType changes both indices or none: when the call aborts   *)
(* on a name already registered, the definition it was given is in neither *)
(* index of the dialect.                                                   *)
C19_AllOrNothing ==
    (lastCall.op = "addDynamicType" /\ ctx.aborted = ExistingName) =>
        /\ lastCall.arg \notin IndexRange(ctx.dynTypes[lastCall.dialect])
        /\ lastCall.arg \notin IndexRange(ctx.nameToDynTypes[lastCall.dialect])

====
